---- MODULE Spec2Model ----
(***************************************************************************)
(* Model of the ESP32 AirTag tracker tooling:                              *)
(*   scripts/fetch_location.py  - the CLI fetch flow (main, get_account,   *)
(*                                login, load_private_key)                 *)
(*   scripts/web_dashboard.py   - the dashboard (main, init_account,       *)
(*                                fetch_location, Handler.do_GET)          *)
(*                                                                         *)
(* One process runs at a time (the operator starts the CLI or the          *)
(* dashboard); the three files on disk (key file, session store, report    *)
(* cache) outlive the processes.                                           *)
(*                                                                         *)
(* Environment.  The findmy client and the PEM loader are external: every  *)
(* call into them is a nondeterministic choice over its outcomes.          *)
(*   login(email, password)  returns LOGGED_IN or REQUIRE_2FA, or raises   *)
(*                           (credentials rejected)                        *)
(*   method.request()        completes or raises                           *)
(*   method.submit(code)     completes (LOGGED_IN) or raises (rejected)    *)
(*   fetch_location(key)     returns a report, returns None, or raises;    *)
(*                           the session tokens may rotate in every case   *)
(*   from_json(path)         FileNotFoundError for a missing file, another *)
(*                           exception for a malformed one                 *)
(* The CLI is checked against the faults of the error taxonomy (key file,  *)
(* session file, authentication, fetch); in the dashboard's fetch path,    *)
(* where every internal fault has to be caught, the session write may      *)
(* raise as well.                                                          *)
(***************************************************************************)
EXTENDS Integers, Sequences, FiniteSets, TLC

VARIABLES
    keyFile,        \* private_key.pem: what the file holds
    sessionFile,    \* apple_account.json (STORE_PATH)
    reportFile,     \* last_location.json
    pc,             \* CLI main: the statement it is at
    acc,            \* CLI: the AppleAccount held by main / get_account
    key,            \* the KeyPair of the running process (CLI local, dashboard global)
    location,       \* CLI: result of acc.fetch_location(key)
    methods,        \* CLI login: account.get_2fa_methods()
    choice,         \* CLI login: idx = int(input("Select method: "))
    method,         \* CLI login: methods[idx]
    ret,            \* return value of main of the running process (-1: none yet)
    fault,          \* the call that raised in this CLI run / dashboard start-up /
                    \* last dashboard request, "none" if none did
    loaded,         \* what from_json did in this process ("n/a" before the call)
    outcome,        \* outcome of the last remote fetch of this process
    log,            \* the calls this process made that touch account, key or files, in order
    dpc,            \* dashboard main: the statement it is at
    account,        \* dashboard global
    last_location,  \* dashboard global
    listener,       \* dashboard: HTTPServer created
    resp,           \* dashboard: the response to the last request
    dlog            \* dashboard: the calls made while handling the last request

vars == <<keyFile, sessionFile, reportFile, pc, acc, key, location, methods, choice,
          method, ret, fault, loaded, outcome, log, dpc, account, last_location, listener, resp, dlog>>

cliVars  == <<pc, acc, location, methods, choice, method>>
dashVars == <<dpc, account, last_location, listener, resp, dlog>>
files    == <<keyFile, sessionFile, reportFile>>

----------------------------------------------------------------------------
(* Bounds of the model. *)
MaxCoord   == 1     \* latitudes and longitudes are 0..MaxCoord
MaxStamp   == 1     \* report timestamps are 1..MaxStamp
MaxTime    == 1     \* datetime.now() is 1..MaxTime
MaxTok     == 1     \* token generations 0..MaxTok
MaxMethods == 2     \* at most this many second-factor methods offered
MaxIdx     == 3     \* the operator types an index in -MaxIdx..MaxIdx

(* to_bytes(28, "big") *)
KeyLen == 28

Coords  == 0..MaxCoord
Stamps  == 1..MaxStamp
Times   == 1..MaxTime
Idxs    == (0 - MaxIdx)..MaxIdx

KeyFiles == {"missing", "notpem", "p192", "p224", "p521"}

MethodKinds == {"TrustedDevice", "Sms"}
MethodLists == UNION {[1..n -> MethodKinds] : n \in 0..MaxMethods}

NoSession        == [kind |-> "missing",   state |-> "LOGGED_OUT", tok |-> 0]
MalformedSession == [kind |-> "malformed", state |-> "LOGGED_OUT", tok |-> 0]

(* A file cut short by a write that did not finish. *)
PartialSession == [kind |-> "partial", state |-> "LOGGED_OUT", tok |-> 0]

NoAccount  == [kind |-> "none",    state |-> "LOGGED_OUT", tok |-> 0]
NewAccount == [kind |-> "account", state |-> "LOGGED_OUT", tok |-> 0]

NoChoice == [typed |-> FALSE, idx |-> 0]
NoMethod == [kind |-> "none", pos |-> 0]

NoKey == [kind |-> "none", len |-> 0, padded |-> FALSE]

NoReport == [kind |-> "none", latitude |-> 0, longitude |-> 0, timestamp |-> 0]
PartialReport == [kind |-> "partial", latitude |-> 0, longitude |-> 0, timestamp |-> 0]

(* The reports the remote service may return: positions along one track,     *)
(* so that latitude and longitude differ within a report and across reports. *)
Reports  == {[kind |-> "report", latitude |-> c, longitude |-> MaxCoord - c,
              timestamp |-> t] : c \in Coords, t \in Stamps}

NoLocation == [kind |-> "none", latitude |-> 0, longitude |-> 0, timestamp |-> 0,
               fetched_at |-> 0]

NoResponse == [path |-> "none", status |-> 0, kind |-> "none", body |-> NoLocation]

----------------------------------------------------------------------------
(* Pure helpers. *)

(* Byte length of the private scalar of the key a PEM file holds. *)
ScalarLen(kf) == CASE kf = "p192" -> 24
                   [] kf = "p224" -> 28
                   [] kf = "p521" -> 66
                   [] OTHER       -> 0

(* key_file.read_text(); load_pem_private_key(...);                         *)
(* private_value.to_bytes(28, "big"); KeyPair(raw_key).                     *)
(* load_pem_private_key raises ValueError on text that is no PEM key;       *)
(* to_bytes raises OverflowError on a scalar longer than 28 bytes and       *)
(* left-pads a shorter one with zero bytes.                                 *)
LoadPem(kf) ==
    IF kf = "notpem" THEN [exc |-> "ValueError", key |-> NoKey]
    ELSE IF ScalarLen(kf) > KeyLen THEN [exc |-> "OverflowError", key |-> NoKey]
    ELSE [exc |-> "none",
          key |-> [kind |-> "key", len |-> KeyLen, padded |-> ScalarLen(kf) < KeyLen]]

(* fetch_location.load_private_key: the exists() check, then LoadPem. *)
load_private_key(kf) ==
    IF kf = "missing" THEN [exc |-> "FileNotFoundError", key |-> NoKey]
    ELSE LoadPem(kf)

(* AppleAccount.from_json(STORE_PATH, ...) *)
from_json(sf) ==
    IF sf.kind = "missing" THEN [exc |-> "FileNotFoundError", acc |-> NoAccount]
    ELSE IF sf.kind \in {"malformed", "partial"}
         THEN [exc |-> "ValueError", acc |-> NoAccount]
    ELSE [exc |-> "none", acc |-> [kind |-> "account", state |-> sf.state, tok |-> sf.tok]]

(* acc.to_json(STORE_PATH): what the file holds afterwards. *)
to_json(a) == [kind |-> "session", state |-> a.state, tok |-> a.tok]

(* Python list indexing methods[idx]: valid for -len <= idx < len,          *)
(* a negative index counts from the end; otherwise IndexError.              *)
(* PyPos is the 1-based position of the element that methods[idx] yields.   *)
IndexValid(ms, idx) == (0 - Len(ms)) <= idx /\ idx < Len(ms)
PyPos(ms, idx) == IF idx >= 0 THEN idx + 1 ELSE Len(ms) + idx + 1

(* The remote service may rotate the session tokens on any call. *)
Rotate(a, rot) == IF rot /\ a.tok < MaxTok THEN [a EXCEPT !.tok = a.tok + 1] ELSE a

Has(s, e) == \E i \in 1..Len(s) : s[i] = e

----------------------------------------------------------------------------
Init ==
    /\ keyFile \in KeyFiles
    /\ sessionFile \in {NoSession, MalformedSession,
                        [kind |-> "session", state |-> "LOGGED_IN", tok |-> 0]}
    /\ reportFile = NoReport
    /\ pc = "idle"
    /\ acc = NoAccount
    /\ key = NoKey
    /\ location = NoReport
    /\ methods = << >>
    /\ choice = NoChoice
    /\ method = NoMethod
    /\ ret = -1
    /\ fault = "none"
    /\ loaded = "n/a"
    /\ outcome = "n/a"
    /\ log = << >>
    /\ dpc = "off"
    /\ account = NoAccount
    /\ last_location = NoLocation
    /\ listener = FALSE
    /\ resp = NoResponse
    /\ dlog = << >>

NoProcess == /\ pc \in {"idle", "done", "killed"}
             /\ dpc \in {"off", "returned", "crashed", "killed"}

----------------------------------------------------------------------------
(* fetch_location.py *)

(* The operator runs fetch_location.py: a fresh process. *)
CliStart ==
    /\ NoProcess
    /\ pc' = "load_key"
    /\ acc' = NoAccount /\ key' = NoKey /\ location' = NoReport
    /\ methods' = << >> /\ choice' = NoChoice /\ method' = NoMethod
    /\ ret' = -1 /\ fault' = "none" /\ log' = << >>
    /\ loaded' = "n/a" /\ outcome' = "n/a"
    /\ dpc' = "off" /\ account' = NoAccount /\ last_location' = NoLocation
    /\ listener' = FALSE /\ resp' = NoResponse /\ dlog' = << >>
    /\ UNCHANGED files

(* main: try: raw_key = load_private_key(...); key = KeyPair(raw_key)       *)
(*       except Exception: return 1                                         *)
CliLoadKey ==
    /\ pc = "load_key"
    /\ LET r == load_private_key(keyFile) IN
       /\ log' = Append(log, "load_private_key")
       /\ IF r.exc = "none"
          THEN /\ key' = r.key /\ pc' = "get_account"
               /\ UNCHANGED <<ret, fault>>
          ELSE /\ ret' = 1 /\ fault' = "key" /\ pc' = "done"
               /\ UNCHANGED key
    /\ UNCHANGED <<files, acc, location, methods, choice, method, loaded, outcome,
                   dashVars>>

(* Mutant of CliGetAccount: "except Exception" instead of                    *)
(* "except FileNotFoundError", so a malformed file starts the login too.     *)
CliGetAccount_CatchAll ==
    /\ pc = "get_account"
    /\ LET r == from_json(sessionFile) IN
       /\ log' = Append(log, "from_json")
       /\ loaded' = r.exc
       /\ IF r.exc = "none"
          THEN acc' = r.acc /\ pc' = "fetch"
          ELSE acc' = NewAccount /\ pc' = "login"
    /\ UNCHANGED <<files, key, location, methods, choice, method, ret, fault, outcome,
                   dashVars>>

(* get_account: try: return AppleAccount.from_json(...)                     *)
(*              except FileNotFoundError: acc = AppleAccount(ani); login    *)
(* any other exception reaches main's except Exception: return 1            *)
CliGetAccount ==
    /\ pc = "get_account"
    /\ LET r == from_json(sessionFile) IN
       /\ log' = Append(log, "from_json")
       /\ loaded' = r.exc
       /\ CASE r.exc = "none" ->
                 /\ acc' = r.acc /\ pc' = "fetch"
                 /\ UNCHANGED <<ret, fault>>
            [] r.exc = "FileNotFoundError" ->
                 /\ acc' = NewAccount /\ pc' = "login"
                 /\ UNCHANGED <<ret, fault>>
            [] OTHER ->
                 /\ ret' = 1 /\ fault' = "session" /\ pc' = "done"
                 /\ UNCHANGED acc
    /\ UNCHANGED <<files, key, location, methods, choice, method, outcome, dashVars>>

(* Mutant of CliLogin: the REQUIRE_2FA state is not handled, login returns   *)
(* without a second factor.                                                  *)
CliLogin_Skip2FA ==
    /\ pc = "login"
    /\ \E out \in {"LOGGED_IN", "REQUIRE_2FA", "raise"} :
         CASE out = "LOGGED_IN" ->
                /\ acc' = [acc EXCEPT !.state = "LOGGED_IN"]
                /\ log' = Append(log, "login")
                /\ pc' = "save_login"
                /\ UNCHANGED <<methods, ret, fault>>
           [] out = "REQUIRE_2FA" ->
                /\ acc' = [acc EXCEPT !.state = "REQUIRE_2FA"]
                /\ log' = Append(log, "login")
                /\ pc' = "save_login"
                /\ UNCHANGED <<methods, ret, fault>>
           [] OTHER ->
                /\ log' = Append(log, "login")
                /\ ret' = 1 /\ fault' = "login" /\ pc' = "done"
                /\ UNCHANGED <<acc, methods>>
    /\ UNCHANGED <<files, key, location, choice, method, loaded, outcome, dashVars>>

(* login: email/password prompts, state = account.login(email, password);   *)
(* if state == REQUIRE_2FA: methods = account.get_2fa_methods().            *)
(* A rejected login raises inside get_account's except block and reaches    *)
(* main's except Exception: return 1.                                       *)
CliLogin ==
    /\ pc = "login"
    /\ \E out \in {"LOGGED_IN", "REQUIRE_2FA", "raise"} :
         CASE out = "LOGGED_IN" ->
                /\ acc' = [acc EXCEPT !.state = "LOGGED_IN"]
                /\ log' = Append(log, "login")
                /\ pc' = "save_login"
                /\ UNCHANGED <<methods, ret, fault>>
           [] out = "REQUIRE_2FA" ->
                /\ acc' = [acc EXCEPT !.state = "REQUIRE_2FA"]
                /\ \E ms \in MethodLists : methods' = ms
                /\ log' = log \o <<"login", "get_2fa_methods">>
                /\ pc' = "select"
                /\ UNCHANGED <<ret, fault>>
           [] OTHER ->
                /\ log' = Append(log, "login")
                /\ ret' = 1 /\ fault' = "login" /\ pc' = "done"
                /\ UNCHANGED <<acc, methods>>
    /\ UNCHANGED <<files, key, location, choice, method, loaded, outcome, dashVars>>

(* Mutant of CliSelectMethod: request() is called whatever the kind of the   *)
(* selected method.                                                          *)
CliSelectMethod_AlwaysRequest ==
    /\ pc = "select"
    /\ \E idx \in Idxs :
         /\ choice' = [typed |-> TRUE, idx |-> idx]
         /\ IF IndexValid(methods, idx)
            THEN /\ method' = [kind |-> methods[PyPos(methods, idx)],
                               pos |-> PyPos(methods, idx)]
                 /\ pc' = "request"
                 /\ UNCHANGED <<ret, fault>>
            ELSE /\ ret' = 1 /\ fault' = "index" /\ pc' = "done"
                 /\ UNCHANGED method
    /\ UNCHANGED <<files, acc, key, location, methods, log, loaded, outcome, dashVars>>

(* login: idx = int(input("Select method: ")); method = methods[idx]        *)
(* IndexError for an index the list does not have.                          *)
CliSelectMethod ==
    /\ pc = "select"
    /\ \E idx \in Idxs :
         /\ choice' = [typed |-> TRUE, idx |-> idx]
         /\ IF IndexValid(methods, idx)
            THEN /\ method' = [kind |-> methods[PyPos(methods, idx)],
                               pos |-> PyPos(methods, idx)]
                 /\ pc' = IF methods[PyPos(methods, idx)] = "Sms"
                          THEN "request" ELSE "submit"
                 /\ UNCHANGED <<ret, fault>>
            ELSE /\ ret' = 1 /\ fault' = "index" /\ pc' = "done"
                 /\ UNCHANGED method
    /\ UNCHANGED <<files, acc, key, location, methods, log, loaded, outcome, dashVars>>

(* login: if isinstance(method, SmsSecondFactorMethod): method.request() *)
CliRequest ==
    /\ pc = "request"
    /\ log' = Append(log, "request")
    /\ \E ok \in BOOLEAN :
         IF ok THEN pc' = "submit" /\ UNCHANGED <<ret, fault>>
               ELSE ret' = 1 /\ fault' = "request" /\ pc' = "done"
    /\ UNCHANGED <<files, acc, key, location, methods, choice, method, loaded, outcome,
                   dashVars>>

(* Mutant of CliSubmit: the exception of a rejected code is swallowed and    *)
(* login returns normally.                                                   *)
CliSubmit_IgnoreRejection ==
    /\ pc = "submit"
    /\ log' = Append(log, "submit")
    /\ \E accepted \in BOOLEAN :
         IF accepted
         THEN /\ acc' = [acc EXCEPT !.state = "LOGGED_IN"]
              /\ pc' = "save_login"
              /\ UNCHANGED <<ret, fault>>
         ELSE /\ fault' = "submit" /\ pc' = "save_login"
              /\ UNCHANGED <<acc, ret>>
    /\ UNCHANGED <<files, key, location, methods, choice, method, loaded, outcome,
                   dashVars>>

(* login: code = input("Enter 2FA code: "); method.submit(code)             *)
(* An accepted code logs the account in; a rejected one raises.             *)
CliSubmit ==
    /\ pc = "submit"
    /\ log' = Append(log, "submit")
    /\ \E accepted \in BOOLEAN :
         IF accepted
         THEN /\ acc' = [acc EXCEPT !.state = "LOGGED_IN"]
              /\ pc' = "save_login"
              /\ UNCHANGED <<ret, fault>>
         ELSE /\ ret' = 1 /\ fault' = "submit" /\ pc' = "done"
              /\ UNCHANGED acc
    /\ UNCHANGED <<files, key, location, methods, choice, method, loaded, outcome,
                   dashVars>>

(* Mutant of CliSaveLogin: get_account returns acc without acc.to_json. *)
CliSaveLogin_NoWrite ==
    /\ pc = "save_login"
    /\ pc' = "fetch"
    /\ UNCHANGED <<files, acc, key, location, methods, choice, method, log,
                   ret, fault, loaded, outcome, dashVars>>

(* get_account: login(acc) returned; acc.to_json(str(STORE_PATH)); return   *)
(* acc.  main prints the account name and goes on to the fetch.             *)
CliSaveLogin ==
    /\ pc = "save_login"
    /\ sessionFile' = to_json(acc)
    /\ log' = Append(log, "to_json")
    /\ pc' = "fetch"
    /\ UNCHANGED <<keyFile, reportFile, acc, key, location, methods, choice, method,
                   ret, fault, loaded, outcome, dashVars>>

(* Mutant of CliFetch: a fetch that raised is tried a second time. *)
CliFetch_Retry ==
    /\ pc = "fetch"
    /\ \E rot \in BOOLEAN :
         /\ acc' = Rotate(acc, rot)
         /\ \/ \E r \in Reports : /\ location' = r /\ outcome' = "Found"
                                  /\ log' = Append(log, "fetch_location")
                                  /\ pc' = "save_report" /\ UNCHANGED fault
            \/ /\ location' = NoReport /\ outcome' = "NotFound"
               /\ log' = Append(log, "fetch_location")
               /\ pc' = "save_final" /\ UNCHANGED fault
            \/ /\ location' = NoReport /\ outcome' = "TransientFailure"
               /\ log' = log \o <<"fetch_location", "fetch_location">>
               /\ pc' = "save_failed" /\ fault' = "fetch"
    /\ UNCHANGED <<files, key, methods, choice, method, ret, loaded, dashVars>>

(* main: try: location = acc.fetch_location(key)                            *)
(*       except Exception: ... (the handler is CliSaveFailed)               *)
CliFetch ==
    /\ pc = "fetch"
    /\ log' = Append(log, "fetch_location")
    /\ \E rot \in BOOLEAN :
         /\ acc' = Rotate(acc, rot)
         /\ \/ \E r \in Reports : /\ location' = r /\ outcome' = "Found"
                                  /\ pc' = "save_report" /\ UNCHANGED fault
            \/ /\ location' = NoReport /\ outcome' = "NotFound"
               /\ pc' = "save_final" /\ UNCHANGED fault
            \/ /\ location' = NoReport /\ outcome' = "TransientFailure"
               /\ pc' = "save_failed" /\ fault' = "fetch"
    /\ UNCHANGED <<files, key, methods, choice, method, ret, loaded, dashVars>>

(* Mutant of CliSaveFailed: the except branch returns 1 without acc.to_json. *)
CliSaveFailed_NoWrite ==
    /\ pc = "save_failed"
    /\ ret' = 1
    /\ pc' = "done"
    /\ UNCHANGED <<files, acc, key, location, methods, choice, method, log,
                   fault, loaded, outcome, dashVars>>

(* main, except branch of the fetch: acc.to_json(str(STORE_PATH)); return 1 *)
CliSaveFailed ==
    /\ pc = "save_failed"
    /\ sessionFile' = to_json(acc)
    /\ log' = Append(log, "to_json")
    /\ ret' = 1
    /\ pc' = "done"
    /\ UNCHANGED <<keyFile, reportFile, acc, key, location, methods, choice, method,
                   fault, loaded, outcome, dashVars>>

(* Mutant of CliSaveReport: latitude and longitude written the wrong way    *)
(* round.                                                                    *)
CliSaveReport_Swapped ==
    /\ pc = "save_report"
    /\ reportFile' = [location EXCEPT !.latitude = location.longitude,
                                      !.longitude = location.latitude]
    /\ log' = Append(log, "report_to_json")
    /\ pc' = "save_final"
    /\ UNCHANGED <<keyFile, sessionFile, acc, key, location, methods, choice, method,
                   ret, fault, loaded, outcome, dashVars>>

(* main, location is not None: location.to_json(last_location.json) *)
CliSaveReport ==
    /\ pc = "save_report"
    /\ reportFile' = location
    /\ log' = Append(log, "report_to_json")
    /\ pc' = "save_final"
    /\ UNCHANGED <<keyFile, sessionFile, acc, key, location, methods, choice, method,
                   ret, fault, loaded, outcome, dashVars>>

(* Mutant of CliSaveFinal: a fetch that returned None is reported as a       *)
(* failure, exit code 1.                                                     *)
CliSaveFinal_NotFoundIsError ==
    /\ pc = "save_final"
    /\ sessionFile' = to_json(acc)
    /\ log' = Append(log, "to_json")
    /\ ret' = IF location = NoReport THEN 1 ELSE 0
    /\ pc' = "done"
    /\ UNCHANGED <<keyFile, reportFile, acc, key, location, methods, choice, method,
                   fault, loaded, outcome, dashVars>>

(* main: acc.to_json(str(STORE_PATH)); return 0 *)
CliSaveFinal ==
    /\ pc = "save_final"
    /\ sessionFile' = to_json(acc)
    /\ log' = Append(log, "to_json")
    /\ ret' = 0
    /\ pc' = "done"
    /\ UNCHANGED <<keyFile, reportFile, acc, key, location, methods, choice, method,
                   fault, loaded, outcome, dashVars>>

CliNext ==
    \/ CliStart \/ CliLoadKey \/ CliGetAccount \/ CliLogin \/ CliSelectMethod
    \/ CliRequest \/ CliSubmit \/ CliSaveLogin \/ CliFetch \/ CliSaveFailed
    \/ CliSaveReport \/ CliSaveFinal

----------------------------------------------------------------------------
(* web_dashboard.py *)

(* The operator runs web_dashboard.py: a fresh process. *)
DashStart ==
    /\ NoProcess
    /\ dpc' = "init"
    /\ account' = NoAccount /\ last_location' = NoLocation
    /\ listener' = FALSE /\ resp' = NoResponse /\ dlog' = << >>
    /\ key' = NoKey /\ ret' = -1 /\ fault' = "none" /\ log' = << >>
    /\ loaded' = "n/a" /\ outcome' = "n/a"
    /\ pc' = "idle" /\ acc' = NoAccount /\ location' = NoReport
    /\ methods' = << >> /\ choice' = NoChoice /\ method' = NoMethod
    /\ UNCHANGED files

(* init_account(key_file) and main's "if not init_account(...): return 1".  *)
(* Only the missing key file and the missing session file are handled; an   *)
(* exception of load_private_key or another exception of from_json leaves   *)
(* init_account and main uncaught.                                          *)
DashInitAccount ==
    /\ dpc = "init"
    /\ IF keyFile = "missing"
       THEN /\ dpc' = "returned" /\ ret' = 1
            /\ UNCHANGED <<key, account, fault, log, loaded>>
       ELSE LET k == LoadPem(keyFile)
                a == from_json(sessionFile) IN
            IF k.exc # "none"
            THEN /\ dpc' = "crashed" /\ fault' = "key"
                 /\ log' = Append(log, "load_private_key")
                 /\ UNCHANGED <<key, account, ret, loaded>>
            ELSE /\ key' = k.key
                 /\ log' = log \o <<"load_private_key", "from_json">>
                 /\ loaded' = a.exc
                 /\ CASE a.exc = "none" ->
                           /\ account' = a.acc /\ dpc' = "ready"
                           /\ UNCHANGED <<ret, fault>>
                      [] a.exc = "FileNotFoundError" ->
                           /\ dpc' = "returned" /\ ret' = 1
                           /\ UNCHANGED <<account, fault>>
                      [] OTHER ->
                           /\ dpc' = "crashed" /\ fault' = "session"
                           /\ UNCHANGED <<account, ret>>
    /\ UNCHANGED <<files, cliVars, outcome, last_location, listener, resp, dlog>>

(* main: server = HTTPServer(("localhost", port), Handler); serve_forever() *)
DashListen ==
    /\ dpc = "ready"
    /\ listener' = TRUE
    /\ log' = Append(log, "HTTPServer")
    /\ dpc' = "serving"
    /\ UNCHANGED <<files, cliVars, key, ret, fault, loaded, outcome, account,
                   last_location, resp, dlog>>

(* Handler.do_GET, path "/" or "/index.html" *)
DashGetIndex ==
    /\ dpc = "serving"
    /\ resp' = [path |-> "/", status |-> 200, kind |-> "html", body |-> NoLocation]
    /\ dlog' = <<"send_response", "write">>
    /\ UNCHANGED <<files, cliVars, key, ret, fault, loaded, outcome, log, dpc, account,
                   last_location, listener>>

(* Mutant of fetch_location: the except branch returns last_location         *)
(* instead of None.                                                          *)
fetch_location_StaleOnError(a, k, last, out, r, rot, now, wok) ==
    LET a2 == Rotate(a, rot)
        new == [kind |-> "location", latitude |-> r.latitude,
                longitude |-> r.longitude, timestamp |-> r.timestamp,
                fetched_at |-> now]
    IN CASE out = "raise" ->
              [ret |-> last, last |-> last, account |-> a2,
               wrote |-> FALSE, raised |-> FALSE, calls |-> <<"fetch_location">>]
         [] out = "none" ->
              [ret |-> last, last |-> last, account |-> a2,
               wrote |-> FALSE, raised |-> FALSE, calls |-> <<"fetch_location">>]
         [] OTHER ->
              [ret |-> new, last |-> new, account |-> a2, wrote |-> wok,
               raised |-> FALSE, calls |-> <<"fetch_location", "to_json">>]

(* Mutant of fetch_location: the except branch also forgets the last report. *)
fetch_location_ClearOnError(a, k, last, out, r, rot, now, wok) ==
    LET a2 == Rotate(a, rot)
        new == [kind |-> "location", latitude |-> r.latitude,
                longitude |-> r.longitude, timestamp |-> r.timestamp,
                fetched_at |-> now]
    IN CASE out = "raise" ->
              [ret |-> NoLocation, last |-> NoLocation, account |-> a2,
               wrote |-> FALSE, raised |-> FALSE, calls |-> <<"fetch_location">>]
         [] out = "none" ->
              [ret |-> last, last |-> last, account |-> a2,
               wrote |-> FALSE, raised |-> FALSE, calls |-> <<"fetch_location">>]
         [] OTHER ->
              [ret |-> IF wok THEN new ELSE NoLocation, last |-> new,
               account |-> a2, wrote |-> wok, raised |-> FALSE,
               calls |-> <<"fetch_location", "to_json">>]

(* Mutant of fetch_location: the session write sits after the try block, so *)
(* its exception leaves the function.                                        *)
fetch_location_WriteOutsideTry(a, k, last, out, r, rot, now, wok) ==
    LET a2 == Rotate(a, rot)
        new == [kind |-> "location", latitude |-> r.latitude,
                longitude |-> r.longitude, timestamp |-> r.timestamp,
                fetched_at |-> now]
    IN CASE out = "raise" ->
              [ret |-> NoLocation, last |-> last, account |-> a2,
               wrote |-> FALSE, raised |-> FALSE, calls |-> <<"fetch_location">>]
         [] out = "none" ->
              [ret |-> last, last |-> last, account |-> a2,
               wrote |-> FALSE, raised |-> FALSE, calls |-> <<"fetch_location">>]
         [] OTHER ->
              [ret |-> IF wok THEN new ELSE NoLocation, last |-> new,
               account |-> a2, wrote |-> wok, raised |-> ~wok,
               calls |-> <<"fetch_location", "to_json">>]

(* web_dashboard.fetch_location() for one outcome of the remote call        *)
(* (out: "found" with report r, "none", "raise"; rot: the tokens rotated),  *)
(* one reading of the clock and one outcome of the session write (wok).     *)
(* ret is the value returned (kind "none" is None), wrote tells whether     *)
(* the session file was replaced, calls lists the calls made, raised tells  *)
(* whether an exception left the function: the try block spans the remote   *)
(* call and the session write, and except Exception returns None.           *)
fetch_location(a, k, last, out, r, rot, now, wok) ==
    IF a.kind = "none" \/ k.kind = "none"
    THEN [ret |-> NoLocation, last |-> last, account |-> a, wrote |-> FALSE,
          raised |-> FALSE, calls |-> << >>]
    ELSE LET a2 == Rotate(a, rot)
             new == [kind |-> "location", latitude |-> r.latitude,
                     longitude |-> r.longitude, timestamp |-> r.timestamp,
                     fetched_at |-> now]
         IN CASE out = "raise" ->
                   [ret |-> NoLocation, last |-> last, account |-> a2,
                    wrote |-> FALSE, raised |-> FALSE, calls |-> <<"fetch_location">>]
              [] out = "none" ->
                   [ret |-> last, last |-> last, account |-> a2,
                    wrote |-> FALSE, raised |-> FALSE, calls |-> <<"fetch_location">>]
              [] OTHER ->
                   [ret |-> IF wok THEN new ELSE NoLocation, last |-> new,
                    account |-> a2, wrote |-> wok, raised |-> FALSE,
                    calls |-> <<"fetch_location", "to_json">>]

(* json.dumps(loc or {"error": "No location"}) *)
ApiBody(loc) ==
    IF loc.kind = "none" THEN [kind |-> "error", body |-> NoLocation]
    ELSE [kind |-> "location", body |-> loc]

(* Handler.do_GET, path "/api/location": send_response(200), headers,       *)
(* loc = fetch_location(), write the JSON body.  do_GET has no try block:   *)
(* an exception leaving fetch_location() would leave do_GET before the body *)
(* is written.                                                              *)
DashGetLocation ==
    /\ dpc = "serving"
    /\ \E out \in {"found", "none", "raise"}, rot \in BOOLEAN,
          r \in Reports \cup {NoReport}, now \in Times \cup {0}, wok \in BOOLEAN :
         \* the report, the clock and the session write take part on "found" only
         /\ IF out = "found" THEN r \in Reports /\ now \in Times
                             ELSE r = NoReport /\ now = 0 /\ wok
         /\ LET f == fetch_location(account, key, last_location, out, r, rot, now, wok)
                b == ApiBody(f.ret)
            IN /\ account' = f.account
               /\ last_location' = f.last
               /\ sessionFile' = IF f.wrote THEN to_json(f.account) ELSE sessionFile
               /\ outcome' = CASE out = "found" -> "Found"
                                [] out = "none" -> "NotFound"
                                [] OTHER -> "TransientFailure"
               /\ fault' = IF out = "raise" THEN "fetch"
                           ELSE IF out = "found" /\ ~wok THEN "to_json"
                           ELSE "none"
               /\ resp' = IF f.raised
                           THEN [path |-> "/api/location", status |-> 200,
                                 kind |-> "none", body |-> NoLocation]
                           ELSE [path |-> "/api/location", status |-> 200,
                                 kind |-> b.kind, body |-> b.body]
               /\ dlog' = <<"send_response">> \o f.calls \o
                          (IF f.raised THEN << >> ELSE <<"write">>)
    /\ UNCHANGED <<keyFile, reportFile, cliVars, key, ret, loaded, log, dpc, listener>>

(* Handler.do_GET, any other path: send_response(404) *)
DashGetOther ==
    /\ dpc = "serving"
    /\ resp' = [path |-> "other", status |-> 404, kind |-> "none", body |-> NoLocation]
    /\ dlog' = <<"send_response">>
    /\ UNCHANGED <<files, cliVars, key, ret, fault, loaded, outcome, log, dpc, account,
                   last_location, listener>>

(* main: except KeyboardInterrupt: print("Stopping..."); return 0 *)
DashStop ==
    /\ dpc = "serving"
    /\ dpc' = "returned"
    /\ ret' = 0
    /\ listener' = FALSE
    /\ UNCHANGED <<files, cliVars, key, fault, loaded, outcome, log, account,
                   last_location, resp, dlog>>

DashNext ==
    \/ DashStart \/ DashInitAccount \/ DashListen \/ DashGetIndex
    \/ DashGetLocation \/ DashGetOther \/ DashStop

Next == CliNext \/ DashNext

Spec == Init /\ [][Next]_vars

----------------------------------------------------------------------------
(* Abrupt termination during a file write.  Both scripts hand the final     *)
(* path to to_json (acc.to_json(str(STORE_PATH)), location.to_json(         *)
(* str(report_path))): no temporary file, no rename.  The file is opened    *)
(* for writing in place, so a process killed during the call leaves the old *)
(* content (killed before the file was opened), a file cut short, or the    *)
(* new content (killed after the last byte).                                *)
KilledWrite(old, new, partial) == {old, new, partial}

(* The CLI is killed within one of its acc.to_json(str(STORE_PATH)) calls. *)
CliKilledInSessionWrite ==
    /\ pc \in {"save_login", "save_failed", "save_final"}
    /\ sessionFile' \in KilledWrite(sessionFile, to_json(acc), PartialSession)
    /\ log' = Append(log, "to_json")
    /\ pc' = "killed"
    /\ UNCHANGED <<keyFile, reportFile, acc, key, location, methods, choice, method,
                   ret, fault, loaded, outcome, dashVars>>

(* The CLI is killed within location.to_json(str(report_path)). *)
CliKilledInReportWrite ==
    /\ pc = "save_report"
    /\ reportFile' \in KilledWrite(reportFile, location, PartialReport)
    /\ log' = Append(log, "report_to_json")
    /\ pc' = "killed"
    /\ UNCHANGED <<keyFile, sessionFile, acc, key, location, methods, choice, method,
                   ret, fault, loaded, outcome, dashVars>>

(* The dashboard is killed within account.to_json(str(STORE_PATH)), while   *)
(* it handles a GET /api/location whose fetch returned a report.            *)
DashKilledInSessionWrite ==
    /\ dpc = "serving"
    /\ \E r \in Reports, rot \in BOOLEAN, now \in Times :
         LET f == fetch_location(account, key, last_location, "found", r, rot, now, TRUE)
         IN /\ account' = f.account
            /\ last_location' = f.last
            /\ sessionFile' \in KilledWrite(sessionFile, to_json(f.account),
                                            PartialSession)
            /\ dlog' = <<"send_response">> \o f.calls
    /\ outcome' = "Found"
    /\ dpc' = "killed"
    /\ listener' = FALSE
    /\ UNCHANGED <<keyFile, reportFile, cliVars, key, ret, fault, loaded, log, resp>>

Killed == CliKilledInSessionWrite \/ CliKilledInReportWrite \/ DashKilledInSessionWrite

NextCrash == CliNext \/ DashNext \/ Killed

SpecCrash == Init /\ [][NextCrash]_vars
----------------------------------------------------------------------------
(* Claims. *)

(* How often e occurs in s. *)
Count(s, e) == Cardinality({i \in 1..Len(s) : s[i] = e})

(* e occurs in s, and f occurs somewhere after it. *)
After(s, e, f) == \E i \in 1..Len(s) : \E j \in (i + 1)..Len(s) : s[i] = e /\ s[j] = f

Last(s) == s[Len(s)]

CliDone == pc = "done"

(* C1: a CLI run that called acc.fetch_location has, once main returned,     *)
(* called acc.to_json(STORE_PATH) after the fetch, whatever the fetch did:   *)
(* the session store then holds the account as the fetch left it, and on a   *)
(* raised fetch the exit code 1 comes after the write.                       *)
C1_CliFetchPersistsSession ==
    (CliDone /\ Has(log, "fetch_location")) =>
        /\ After(log, "fetch_location", "to_json")
        /\ Last(log) = "to_json"
        /\ sessionFile = to_json(acc)
        /\ outcome \in {"Found", "NotFound", "TransientFailure"}
        /\ (outcome = "TransientFailure") = (ret = 1)

(* C1 witness: a fetch that raised after rotating the tokens, and main       *)
(* returned 1 with the rotated session on disk.                              *)
C1_Witness ==
    /\ CliDone /\ outcome = "TransientFailure" /\ ret = 1
    /\ acc.tok > 0 /\ sessionFile = to_json(acc)

(* C2: a GET /api/location that called account.fetch_location has called     *)
(* account.to_json(STORE_PATH) before the body was written, whatever the     *)
(* fetch did.                                                                *)
C2_DashFetchPersistsSession ==
    (resp.path = "/api/location" /\ Has(dlog, "fetch_location")) =>
        /\ After(dlog, "fetch_location", "to_json")
        /\ After(dlog, "to_json", "write")

(* C3 as stated: a GET /api/location whose fetch returned None or raised is  *)
(* answered with the error object and status 200.                            *)
C3_ErrorOnNotFoundOrFailure ==
    (resp.path = "/api/location" /\ outcome \in {"NotFound", "TransientFailure"}) =>
        (resp.kind = "error" /\ resp.status = 200)

(* C3 amended: every GET /api/location is answered with status 200; a fetch  *)
(* that raised is answered with the error object; a fetch that returned None *)
(* is answered with the error object when no report was found earlier in     *)
(* this process, and with the last report found otherwise.                   *)
C3_ErrorUnlessCached ==
    (resp.path = "/api/location") =>
        /\ resp.status = 200
        /\ (outcome = "TransientFailure" => resp.kind = "error")
        /\ (outcome = "NotFound" /\ last_location = NoLocation => resp.kind = "error")
        /\ (outcome = "NotFound" /\ last_location # NoLocation =>
                resp.kind = "location" /\ resp.body = last_location)

(* C3 witness: a fetch that returned None, answered with the report found   *)
(* by an earlier request.                                                    *)
C3_Witness ==
    /\ resp.path = "/api/location" /\ outcome = "NotFound"
    /\ last_location # NoLocation /\ resp.kind = "location"
(* C4 as stated: an index typed outside 0..len-1 makes the selection fail,   *)
(* no request() or submit() is called, the account stays in REQUIRE_2FA and  *)
(* the session file is not written.                                          *)
C4_OutOfRangeIndexRejected ==
    (choice.typed /\ ~(0 <= choice.idx /\ choice.idx < Len(methods))) =>
        /\ fault = "index"
        /\ method = NoMethod
        /\ ~Has(log, "request") /\ ~Has(log, "submit")
        /\ acc.state = "REQUIRE_2FA"
        /\ ~Has(log, "to_json")

(* The position in log of the call that logged the account in. *)
VerifiedAt ==
    CHOOSE i \in 1..Len(log) :
        /\ log[i] \in {"login", "submit"}
        /\ \A j \in (i + 1)..Len(log) : log[j] \notin {"login", "submit"}

(* C5: in a first run, once login() or submit() has logged the account in,   *)
(* the next call of the process is acc.to_json(STORE_PATH): no fetch and no  *)
(* other call comes between, and every fetch of that run has the logged-in   *)
(* session on disk before it.                                                *)
C5_VerifiedSessionPersistedFirst ==
    (pc # "idle" /\ Has(log, "login") /\ acc.state = "LOGGED_IN") =>
        /\ IF VerifiedAt = Len(log)
           THEN pc = "save_login"
           ELSE log[VerifiedAt + 1] = "to_json"
        /\ \A j \in 1..Len(log) :
             log[j] = "fetch_location" =>
                \E i \in 1..(j - 1) : log[i] = "to_json"
        /\ (pc \in {"fetch", "save_failed", "save_report", "save_final", "done"} =>
                sessionFile.kind = "session" /\ sessionFile.state = "LOGGED_IN")

(* C5 witness (scenario B): one Sms method offered, index 0 typed, the code  *)
(* requested and accepted, the session file written, the fetch not yet made. *)
C5_Witness ==
    /\ methods = <<"Sms">> /\ choice.typed /\ choice.idx = 0
    /\ Has(log, "request") /\ Has(log, "submit")
    /\ acc.state = "LOGGED_IN" /\ pc = "fetch"
    /\ sessionFile = to_json(acc)

(* C6: a login that was rejected (login() or submit() raised) ends the run   *)
(* with exit code 1, with no session write and no fetch, the session file    *)
(* still missing; get_account writes the session file only for an account    *)
(* that is logged in.                                                        *)
C6_FailedLoginWritesNothing ==
    /\ (fault \in {"login", "submit"}) =>
          /\ CliDone /\ ret = 1
          /\ ~Has(log, "to_json") /\ ~Has(log, "fetch_location")
          /\ sessionFile = NoSession
          /\ acc.state # "LOGGED_IN"
    /\ (pc = "save_login" => acc.state = "LOGGED_IN")
    /\ (pc # "idle" /\ Has(log, "login") /\ Has(log, "to_json") =>
          sessionFile.state = "LOGGED_IN")

(* C6 witness: the 2FA code was rejected. *)
C6_Witness ==
    /\ fault = "submit" /\ CliDone /\ ret = 1
    /\ acc.state = "REQUIRE_2FA" /\ sessionFile = NoSession

(* C7, state part: in a CLI run the report cache was written exactly when    *)
(* the fetch returned a report, and then it holds that report.               *)
C7_ReportWrittenIffFound ==
    (pc # "idle") =>
        /\ Has(log, "report_to_json") = (outcome = "Found" /\ pc \in {"save_final", "done"})
        /\ (Has(log, "report_to_json") =>
                /\ location.kind = "report"
                /\ reportFile.latitude = location.latitude
                /\ reportFile.longitude = location.longitude
                /\ reportFile = location)

(* C7: the report cache file is written if and only if the fetch returned a  *)
(* report, with the latitude and longitude of that report; no other step,    *)
(* and no run whose fetch returned None or raised, creates or changes it.    *)
C7_ReportCacheOnlyOnFound ==
    /\ []C7_ReportWrittenIffFound
    /\ [][reportFile' # reportFile =>
            (pc = "save_report" /\ outcome' = "Found" /\ reportFile' = location')]_vars

(* C7 witness: a second run found nothing and left the report of an earlier  *)
(* run in place.                                                             *)
C7_Witness ==
    /\ CliDone /\ outcome = "NotFound" /\ ret = 0
    /\ reportFile.kind = "report" /\ ~Has(log, "report_to_json")

(* C8 as stated: with no session file, the dashboard's main returns 1, with  *)
(* no listener, no request served, no login and no session write.           *)
C8_NoSessionReturnsOne ==
    (dpc \notin {"off", "init"} /\ sessionFile.kind = "missing") =>
        /\ dpc = "returned" /\ ret = 1
        /\ ~listener /\ resp = NoResponse
        /\ ~Has(log, "login") /\ ~Has(log, "HTTPServer")

(* C9: a GET /api/location during which the remote fetch or the session      *)
(* write raised is answered with status 200 and the error object, and the    *)
(* server goes on serving: it leaves the serving state only on the           *)
(* operator's interrupt, and the next GET / and GET /api/location are taken. *)
C9_FetchFaultsAreCaught ==
    (resp.path = "/api/location" /\ fault \in {"fetch", "to_json"}) =>
        /\ resp.status = 200 /\ resp.kind = "error"
        /\ Last(dlog) = "write"
        /\ dpc = "serving" \/ (dpc = "returned" /\ ret = 0)
        /\ (dpc = "serving" =>
                listener /\ ENABLED DashGetIndex /\ ENABLED DashGetLocation)

(* C9 witness: the session write raised after a report was found. *)
C9_Witness ==
    /\ resp.path = "/api/location" /\ fault = "to_json" /\ outcome = "Found"
    /\ resp.kind = "error" /\ dpc = "serving" /\ listener

(* C10: in the CLI a malformed session file ends the run with exit code 1,   *)
(* with no login, no fetch and the file left as it was; the login is started *)
(* only when from_json raised FileNotFoundError.                             *)
C10_MalformedSessionAborts ==
    (pc # "idle") =>
        /\ (Has(log, "from_json") /\ sessionFile = MalformedSession) =>
              /\ CliDone /\ ret = 1 /\ loaded = "ValueError"
              /\ ~Has(log, "login") /\ ~Has(log, "fetch_location")
              /\ ~Has(log, "to_json")
        /\ (loaded = "ValueError" => sessionFile = MalformedSession)
        /\ (pc = "login" \/ Has(log, "login")) => loaded = "FileNotFoundError"

(* C10 witness: the run over a malformed session file has ended. *)
C10_Witness ==
    /\ CliDone /\ ret = 1 /\ fault = "session" /\ sessionFile = MalformedSession
(* C11 as stated: a key file that is missing, is no PEM key or holds a key   *)
(* of another curve ends key loading in a reported configuration error (the  *)
(* CLI returns 1, the dashboard's main returns 1), never in an uncaught      *)
(* exception and never in a key padded or cut to 28 bytes.                   *)
C11_BadKeyIsConfigError ==
    (keyFile # "p224") =>
        /\ (pc \notin {"idle", "load_key"} =>
                CliDone /\ ret = 1 /\ fault = "key" /\ key = NoKey)
        /\ (dpc \notin {"off", "init"} =>
                dpc = "returned" /\ ret = 1 /\ key = NoKey)

(* C12: when the CLI's main has returned, the exit code is 0 exactly when    *)
(* no call raised (key load, session load or login, fetch), which includes   *)
(* a fetch that returned None; it is 1 when one of them raised.              *)
C12_ExitCode ==
    CliDone =>
        /\ ret \in {0, 1}
        /\ (ret = 0) = (fault = "none")
        /\ (ret = 0) = (key.kind = "key" /\ acc.state = "LOGGED_IN"
                        /\ outcome \in {"Found", "NotFound"})
        /\ (fault \in {"key", "session", "login", "index", "request", "submit", "fetch"}
                => ret = 1)
        /\ (outcome = "NotFound" => ret = 0 /\ fault = "none")

(* C12 witness: the fetch returned None and main returned 0. *)
C12_Witness ==
    /\ CliDone /\ outcome = "NotFound" /\ ret = 0 /\ location = NoReport
(* C13 as stated: whenever a process may be killed, each of the two files    *)
(* is complete: it holds the previous content or the new content, never a    *)
(* file cut short.                                                           *)
C13_FilesNeverPartial ==
    /\ sessionFile.kind # "partial"
    /\ reportFile.kind # "partial"
(* The login has left the 2FA block: it returned, or the run has ended. *)
LoginOver == pc \in {"save_login", "fetch", "save_failed", "save_report", "save_final",
                     "done"}

(* C14, the part on the order of the calls: request() and submit() are each  *)
(* called at most once and only on a selected method, which is the element   *)
(* of the list, in the order get_2fa_methods gave it, at the index typed;    *)
(* request() is never called on a TrustedDevice method; on an Sms method     *)
(* submit() is called only after the one request().                          *)
C14_Order ==
    /\ Count(log, "request") <= 1
    /\ Count(log, "submit") <= 1
    /\ (Has(log, "request") \/ Has(log, "submit") \/ pc \in {"request", "submit"}) =>
          /\ choice.typed /\ IndexValid(methods, choice.idx)
          /\ method.pos = PyPos(methods, choice.idx)
          /\ method.kind = methods[method.pos]
          /\ (choice.idx >= 0 => method.pos = choice.idx + 1)
    /\ (method = NoMethod => ~Has(log, "request") /\ ~Has(log, "submit"))
    /\ (method.kind = "TrustedDevice" => ~Has(log, "request"))
    /\ (method.kind = "Sms" /\ (Has(log, "submit") \/ pc = "submit") =>
          Count(log, "request") = 1)
    /\ (method.kind = "Sms" /\ Has(log, "submit") => After(log, "request", "submit"))

(* C14 as stated: once a method is selected and the login is over, submit()  *)
(* was called exactly once; request() exactly once and before it for Sms,    *)
(* never for TrustedDevice.                                                  *)
C14_SubmitExactlyOnce ==
    (pc # "idle" /\ method # NoMethod /\ LoginOver) =>
        /\ C14_Order
        /\ Count(log, "submit") = 1
        /\ (method.kind = "Sms" => Count(log, "request") = 1)

(* C14 amended: as stated, except that a request() that raises ends the      *)
(* login before submit() is called (then submit() is not called at all).     *)
C14_SubmitOnceUnlessRequestRaised ==
    (pc # "idle") =>
        /\ C14_Order
        /\ (method # NoMethod /\ LoginOver) =>
              /\ (method.kind = "Sms" => Count(log, "request") = 1)
              /\ Count(log, "submit") = (IF fault = "request" THEN 0 ELSE 1)
              /\ (fault = "request" => method.kind = "Sms" /\ CliDone /\ ret = 1)

(* C14 witness: the second of two methods, an Sms one, was selected, the     *)
(* code requested, then submitted and accepted.                              *)
C14_Witness ==
    /\ Len(methods) = 2 /\ choice.idx = 1 /\ method = [kind |-> "Sms", pos |-> 2]
    /\ After(log, "request", "submit") /\ acc.state = "LOGGED_IN"

(* C15: a run of the CLI's main calls acc.fetch_location at most once, and   *)
(* exactly once when a fetch outcome exists; the handling of one             *)
(* GET /api/location calls account.fetch_location exactly once; a None       *)
(* result or an exception is not followed by another attempt.                *)
C15_OneFetchAttempt ==
    /\ Count(log, "fetch_location") <= 1
    /\ Count(dlog, "fetch_location") <= 1
    /\ (pc # "idle" =>
          (Count(log, "fetch_location") = 1) = (outcome # "n/a"))
    /\ (pc = "fetch" => ~Has(log, "fetch_location"))
    /\ (resp.path = "/api/location" => Count(dlog, "fetch_location") = 1)
    /\ (resp.path # "/api/location" => ~Has(dlog, "fetch_location"))

(* C15 witness: the one fetch of a CLI run raised and the run has ended. *)
C15_Witness ==
    /\ CliDone /\ outcome = "TransientFailure" /\ Count(log, "fetch_location") = 1

(* C16, state part: last_location is null before the dashboard serves, and   *)
(* a request whose fetch returned None is answered with last_location: the   *)
(* report of the earlier Found (its four fields) when there is one.          *)
C16_CachedReportReturned ==
    /\ (dpc \in {"off", "init", "ready"} => last_location = NoLocation)
    /\ (resp.path = "/api/location" /\ outcome = "NotFound") =>
          /\ resp.body = last_location
          /\ (last_location # NoLocation =>
                /\ resp.kind = "location"
                /\ resp.body.latitude = last_location.latitude
                /\ resp.body.longitude = last_location.longitude
                /\ resp.body.timestamp = last_location.timestamp
                /\ resp.body.fetched_at = last_location.fetched_at)

(* C16: the dashboard's last_location is null until the first Found, is      *)
(* replaced only by a request whose fetch returned a report, and then by a   *)
(* report, never by null; a None result or a raised fetch leaves it as it    *)
(* was.                                                                      *)
C16_LastLocationOnlyOnFound ==
    /\ []C16_CachedReportReturned
    /\ [][dpc = "serving" =>
            /\ (last_location' # last_location =>
                    outcome' = "Found" /\ last_location'.kind = "location")
            /\ (last_location # NoLocation => last_location' # NoLocation)
            /\ (resp' # resp /\ resp'.path = "/api/location"
                 /\ outcome' \in {"NotFound", "TransientFailure"} =>
                    last_location' = last_location)]_vars

(* C16 witness: a None result answered with the report, and the time of      *)
(* fetching, of an earlier Found.                                            *)
C16_Witness ==
    /\ dpc = "serving" /\ resp.path = "/api/location" /\ outcome = "NotFound"
    /\ last_location.kind = "location" /\ last_location.fetched_at \in Times
    /\ resp.body = last_location

(* C17: the CLI calls acc.fetch_location only with a loaded key and with an  *)
(* account that is logged in, either restored from the session store or      *)
(* logged in by this run and written to the session store before the fetch;  *)
(* the login is started only when the session file was missing.              *)
C17_FetchGated ==
    (pc # "idle") =>
        /\ (pc \in {"fetch", "save_failed", "save_report", "save_final"}
            \/ Has(log, "fetch_location")) =>
              /\ key.kind = "key" /\ Has(log, "load_private_key")
              /\ acc.kind = "account" /\ acc.state = "LOGGED_IN"
              /\ \/ loaded = "none" /\ ~Has(log, "login")
                 \/ /\ loaded = "FileNotFoundError" /\ Has(log, "login")
                    /\ IF Has(log, "fetch_location")
                       THEN After(log, "to_json", "fetch_location")
                       ELSE Has(log, "to_json")
        /\ (pc \in {"login", "select", "request", "submit", "save_login"}
            \/ Has(log, "login")) => loaded = "FileNotFoundError"
        /\ (Has(log, "fetch_location") => After(log, "from_json", "fetch_location"))

(* C17 witness: a fetch made with a session restored from the store. *)
C17_Witness ==
    /\ pc = "save_final" /\ loaded = "none" /\ ~Has(log, "login")
    /\ Has(log, "fetch_location") /\ acc.state = "LOGGED_IN" /\ key.kind = "key"
====
